---- MODULE Spec2Model ----
(***************************************************************************)
(* AudioSync server: the device registry (DeviceManager), the streaming    *)
(* session flag of AudioSyncServer, its connection handlers and the        *)
(* chunk delivery task (stream_audio_chunks), as one asyncio event loop:   *)
(* every action is the code a coroutine runs between two awaits.           *)
(* AudioStreamer.split_into_chunks is followed one loop pass at a time.    *)
(*                                                                         *)
(* Time is counted in sample periods (1/44100 s), so that the two second   *)
(* lead, the 0.1 s buffer, the 30 s / 60 s liveness windows and the chunk  *)
(* duration 4096 / (44100 * 2 * 2) s are all whole numbers.  Averages of   *)
(* latency windows are exact rationals, kept as multiples of 1/AvgScale.   *)
(* Floating point rounding is not modelled.                                *)
(***************************************************************************)
EXTENDS Integers, Sequences, FiniteSets, TLC

\* ------------------------------------------------------------- bounds
MaxConns == 3
SessionConns == 1
MaxTasks == 2
MaxTicks == 2
MaxAcks == 1
MaxHist == 11
MaxDmOps == 5

\* ---------------------------------------------------- program constants
SampleRate == 44100
Channels == 2
chunk_size == 4096
max_latency_samples == 10
ActiveSeconds == 30
CleanupSeconds == 60
LeadSeconds == 2

\* time.time() + 2 in start_audio_streaming, in sample periods
Lead == LeadSeconds * SampleRate

\* chunk_size / (44100 * 2 * 2) seconds, in sample periods
chunk_duration == (chunk_size * SampleRate) \div (SampleRate * Channels * 2)

\* the 0.1 s buffer of get_synchronization_delay, in sample periods
SyncBuffer == SampleRate \div 10

\* the 30 s window of get_device_list, in sample periods
ActiveWindow == ActiveSeconds * SampleRate

\* the default timeout of cleanup_inactive_devices, in sample periods
CleanupTimeout == CleanupSeconds * SampleRate

RECURSIVE Gcd(_, _)
Gcd(a, b) == IF b = 0 THEN a ELSE Gcd(b, a % b)

RECURSIVE LcmUpTo(_)
LcmUpTo(n) == IF n <= 1 THEN 1 ELSE (LcmUpTo(n - 1) * n) \div Gcd(LcmUpTo(n - 1), n)

\* sum(latencies) / len(latencies) is a multiple of 1/AvgScale for every
\* window of at most max_latency_samples whole samples
AvgScale == LcmUpTo(max_latency_samples)

\* ------------------------------------------------------------- helpers
Unset == <<>>
NoFile == "None"
DefaultFile == "default_audio.wav"
BadFile == "notes.txt"

Put(f, k, v) == [x \in DOMAIN f \cup {k} |-> IF x = k THEN v ELSE f[x]]
Del(f, k) == [x \in DOMAIN f \ {k} |-> f[x]]
EmptyMap == [x \in {} |-> 0]

Max(a, b) == IF a >= b THEN a ELSE b

RECURSIVE SeqSum(_)
SeqSum(s) == IF s = <<>> THEN 0 ELSE Head(s) + SeqSum(Tail(s))

VARIABLES
    clients,            \* AudioSyncServer.clients: client id -> connection
    devices,            \* DeviceManager.devices: id -> device record
    device_latencies,   \* DeviceManager.device_latencies: id -> window
    is_streaming,       \* AudioSyncServer.is_streaming
    current_audio_file, \* AudioSyncServer.current_audio_file
    sync_timestamp,     \* AudioSyncServer.sync_timestamp
    now,                \* time.time()
    conns,              \* one register_client coroutine per connection
    tasks,              \* the stream_audio_chunks tasks created so far
    ev,                 \* the step just taken and the messages it sent
    hist,               \* per window: every sample appended since it was created
    budget,             \* steps of the environment left (ticks, acks, registry calls)
    split               \* a call of AudioStreamer.split_into_chunks: arguments, result

vars == <<clients, devices, device_latencies, is_streaming, current_audio_file,
          sync_timestamp, now, conns, tasks, ev, hist, budget, split>>

server_vars == <<clients, is_streaming, current_audio_file, sync_timestamp, conns, tasks>>

\* ------------------------------------------------------- DeviceManager
\* A device record is the dict stored in DeviceManager.devices; a key the
\* dict does not hold ('volume', 'enabled') is Unset, one it holds with
\* value v is <<v>>.  info is the dict the caller passes: [name, volume,
\* enabled].
update_device(device_id, info) ==
    /\ devices' = Put(devices, device_id,
                      [name |-> info.name, last_seen |-> now,
                       volume |-> info.volume, enabled |-> info.enabled])
    /\ device_latencies' =
         IF device_id \in DOMAIN device_latencies
         THEN device_latencies
         ELSE Put(device_latencies, device_id, <<>>)

remove_device(device_id) ==
    /\ devices' = Del(devices, device_id)
    /\ device_latencies' = Del(device_latencies, device_id)

\* the window with pop() in place of pop(0): the newest sample is evicted
AppendedPopNewest(latencies, latency) ==
    LET appended == Append(latencies, latency)
    IN  IF Len(appended) > max_latency_samples
        THEN SubSeq(appended, 1, Len(appended) - 1)
        ELSE appended

\* latencies.append(latency); if len(latencies) > 10: latencies.pop(0)
Appended(latencies, latency) ==
    LET appended == Append(latencies, latency)
    IN  IF Len(appended) > max_latency_samples THEN Tail(appended) ELSE appended

update_device_latency(device_id, latency) ==
    LET latencies == IF device_id \in DOMAIN device_latencies
                     THEN device_latencies[device_id]
                     ELSE <<>>
    IN  device_latencies' = Put(device_latencies, device_id, Appended(latencies, latency))

\* sum(latencies) / len(latencies), in units of 1/AvgScale sample periods
get_average_latency(device_id) ==
    LET latencies == IF device_id \in DOMAIN device_latencies
                     THEN device_latencies[device_id]
                     ELSE <<>>
    IN  IF latencies = <<>> THEN 0
        ELSE (SeqSum(latencies) * AvgScale) \div Len(latencies)

\* the loop "for device_id in self.devices.keys(): max_latency = max(...)"
\* over the ids still to visit, from the running maximum m
RECURSIVE MaxLatencyOver(_, _)
MaxLatencyOver(ids, m) ==
    IF ids = {} THEN m
    ELSE LET device_id == CHOOSE d \in ids : TRUE
         IN  MaxLatencyOver(ids \ {device_id}, Max(m, get_average_latency(device_id)))

\* the ids of the devices get_device_list returns (seen within 30 seconds)
ActiveIds == {d \in DOMAIN devices : now - devices[d].last_seen < ActiveWindow}

\* the maximum taken over the active devices only
get_max_latency_active == MaxLatencyOver(ActiveIds, 0)

get_max_latency == MaxLatencyOver(DOMAIN devices, 0)

get_synchronization_delay == get_max_latency + SyncBuffer * AvgScale

\* get_device_list: a copy of each active device with its average latency.
\* The list's order (insertion order of the dict) is not modelled.
get_device_list ==
    {[id |-> d, name |-> devices[d].name, last_seen |-> devices[d].last_seen,
      volume |-> devices[d].volume, enabled |-> devices[d].enabled,
      average_latency |-> get_average_latency(d)] : d \in ActiveIds}

\* the test "current_time - device['last_seen'] >= timeout" in place of ">"
InactiveIdsInclusive(timeout) ==
    {d \in DOMAIN devices : now - devices[d].last_seen >= timeout}

\* the list inactive_devices: "if current_time - device['last_seen'] > timeout"
InactiveIds(timeout) == {d \in DOMAIN devices : now - devices[d].last_seen > timeout}

\* cleanup_inactive_devices removes every device of InactiveIds(timeout)
\* and returns their number
cleanup_inactive_devices(timeout) ==
    /\ devices' = [d \in DOMAIN devices \ InactiveIds(timeout) |-> devices[d]]
    /\ device_latencies' =
         [d \in DOMAIN device_latencies \ InactiveIds(timeout) |-> device_latencies[d]]

\* set_device_volume storing the volume as it is given
set_device_volume_unclamped(device_id, volume) ==
    devices' = IF device_id \in DOMAIN devices
               THEN [devices EXCEPT ![device_id].volume = <<volume>>]
               ELSE devices

\* get_device_volume: "self.devices[device_id].get('volume', 1.0)", and 1.0
\* for an unknown id
get_device_volume(device_id) ==
    IF device_id \in DOMAIN devices /\ devices[device_id].volume # Unset
    THEN devices[device_id].volume[1]
    ELSE 100

\* is_device_enabled: "device.get('enabled', True)", and False for an
\* unknown id
is_device_enabled(device_id) ==
    IF device_id \notin DOMAIN devices THEN FALSE
    ELSE IF devices[device_id].enabled # Unset THEN devices[device_id].enabled[1]
    ELSE TRUE

\* volumes are hundredths: max(0.0, min(1.0, volume))
set_device_volume(device_id, volume) ==
    devices' = IF device_id \in DOMAIN devices
               THEN [devices EXCEPT ![device_id].volume =
                        <<Max(0, IF volume <= 100 THEN volume ELSE 100)>>]
               ELSE devices

set_device_enabled(device_id, enabled) ==
    devices' = IF device_id \in DOMAIN devices
               THEN [devices EXCEPT ![device_id].enabled = <<enabled>>]
               ELSE devices

\* ----------------------------------------------------- AudioSyncServer
ConnIds == 1..MaxConns
DeviceNames == {"phone"}
LatencySamples == {882, 6615}
StartFiles == {NoFile, BadFile}

\* len(chunks) for every source that decodes (862 for the generated tone)
NumChunks == 2

Range(f) == {f[x] : x \in DOMAIN f}

\* what a step did: the handler or task step, the connection or task it
\* ran for, the source it was given and the messages it sent
EventOf(op, c, arg, msgs) == [op |-> op, conn |-> c, arg |-> arg, msgs |-> msgs]
Event(op, c, msgs) == EventOf(op, c, "", msgs)

\* the connections a send fails on: their transport is closed
Failing == {c \in ConnIds : conns[c].st \in {"dead", "closed"}}

\* the sends awaited one after the other with no handling, a connection
\* whose send fails coming first: the failure ends the broadcast
BroadcastUntilFailure(cl, message) ==
    IF DOMAIN cl = {} THEN <<>>
    ELSE <<[message EXCEPT !.to = IF Range(cl) \cap Failing = {} THEN Range(cl)
                                  ELSE Range(cl) \cap Failing]>>

\* "if self.clients: await asyncio.gather(*[client.send(message) for client
\* in self.clients.values()], return_exceptions=True)" over the map cl
Broadcast(cl, message) ==
    IF DOMAIN cl = {} THEN <<>> ELSE <<[message EXCEPT !.to = Range(cl)]>>

DeviceListMsg(list) == [type |-> "device_list", to |-> {}, devices |-> list]

\* the next connection to arrive is the lowest one not used yet
NextConn(c) == conns[c].st = "free" /\ \A b \in ConnIds : b < c => conns[b].st # "free"

\* register_client up to "await websocket.send(...)": the id is taken from
\* the size of the clients map and the welcome message is sent
Connect(c) ==
    /\ UNCHANGED split
    /\ NextConn(c)
    /\ LET client_id == Cardinality(DOMAIN clients)
       IN  /\ clients' = Put(clients, client_id, c)
           /\ conns' = [conns EXCEPT ![c] = [st |-> "welcome", id |-> client_id,
                                            announced |-> 0]]
           /\ ev' = Event("connect", c,
                          <<[type |-> "connection", to |-> {c}, client_id |-> client_id]>>)
    /\ UNCHANGED <<devices, device_latencies, is_streaming, current_audio_file,
                   sync_timestamp, now, tasks, hist, budget>>

\* register_client resumes: "await self.broadcast_device_list()", then it
\* waits for messages
Announce(c) ==
    /\ UNCHANGED split
    /\ conns[c].st = "welcome"
    /\ conns' = [conns EXCEPT ![c].st = "open"]
    /\ ev' = Event("announce", c, Broadcast(clients, DeviceListMsg(get_device_list)))
    /\ UNCHANGED <<clients, devices, device_latencies, is_streaming, current_audio_file,
                   sync_timestamp, now, tasks, hist, budget>>

\* the transport of a connection closes; its register_client coroutine,
\* waiting in "async for message in websocket", has not run yet, and until
\* it does the connection stays in self.clients and a send to it raises
Die(c) ==
    /\ UNCHANGED split
    /\ conns[c].st = "open"
    /\ conns' = [conns EXCEPT ![c].st = "dead"]
    /\ ev' = Event("die", c, <<>>)
    /\ UNCHANGED <<clients, devices, device_latencies, is_streaming, current_audio_file,
                   sync_timestamp, now, tasks, hist, budget>>

\* the connection closes while register_client waits for a message: the
\* finally block deletes clients[client_id] and broadcasts the device list
Disconnect(c) ==
    /\ UNCHANGED split
    /\ conns[c].st \in {"open", "dead"}
    /\ clients' = IF conns[c].id \in DOMAIN clients THEN Del(clients, conns[c].id)
                  ELSE clients
    /\ conns' = [conns EXCEPT ![c].st = "closed"]
    /\ ev' = Event("disconnect", c, Broadcast(clients', DeviceListMsg(get_device_list)))
    /\ UNCHANGED <<devices, device_latencies, is_streaming, current_audio_file,
                   sync_timestamp, now, tasks, hist, budget>>

\* handle_device_info
handle_device_info(c, name) ==
    /\ UNCHANGED split
    /\ conns[c].st = "open"
    /\ update_device(conns[c].id, [name |-> name, volume |-> Unset, enabled |-> Unset])
    /\ hist' = IF conns[c].id \in DOMAIN hist THEN hist ELSE Put(hist, conns[c].id, <<>>)
    /\ UNCHANGED <<clients, is_streaming, current_audio_file, sync_timestamp, now,
                   conns, tasks, budget>>
    /\ ev' = Event("device_info", c, Broadcast(clients, DeviceListMsg(get_device_list')))

\* a task object made by asyncio.create_task(self.stream_audio_chunks());
\* announced is the sync_timestamp of the start that created it
NewTask(announced) ==
    [pc |-> "new", i |-> 0, n |-> 0, wake |-> 0, announced |-> announced, stopAt |-> -1]

TaskIds == 1..MaxTasks

PendingStarts == Cardinality({c \in ConnIds : conns[c].st = "starting"})

\* start_audio_streaming past its guard, up to "await asyncio.gather(...)";
\* with no client there is no await and the task is created in the same step
BeginSession(c, audio_file) ==
    /\ Len(tasks) + PendingStarts < MaxTasks
    /\ is_streaming' = TRUE
    /\ current_audio_file' = IF audio_file = NoFile THEN DefaultFile ELSE audio_file
    /\ sync_timestamp' = now + Lead
    /\ ev' = EventOf("start_streaming", c, audio_file,
                     Broadcast(clients,
                               [type |-> "prepare_streaming", to |-> {},
                                audio_file |-> current_audio_file',
                                sync_timestamp |-> sync_timestamp']))
    /\ IF DOMAIN clients = {}
       THEN /\ tasks' = Append(tasks, NewTask(sync_timestamp'))
            /\ UNCHANGED conns
       ELSE /\ conns' = [conns EXCEPT ![c].st = "starting",
                                      ![c].announced = sync_timestamp']
            /\ UNCHANGED tasks
    /\ UNCHANGED <<clients, devices, device_latencies, now, hist, budget>>

\* start_audio_streaming without "if self.is_streaming: return"
start_audio_streaming_unguarded(c, audio_file) == BeginSession(c, audio_file)

\* start_audio_streaming
start_audio_streaming(c, audio_file) ==
    IF is_streaming
    THEN /\ ev' = EventOf("start_streaming", c, audio_file, <<>>)
         /\ UNCHANGED <<clients, devices, device_latencies, is_streaming,
                        current_audio_file, sync_timestamp, now, conns, tasks, hist,
                        budget>>
    ELSE BeginSession(c, audio_file)

StartStreaming(c, audio_file) ==
    /\ UNCHANGED split
    /\ conns[c].st = "open"
    /\ start_audio_streaming(c, audio_file)

\* start_audio_streaming resumes after the gather:
\* "asyncio.create_task(self.stream_audio_chunks())"
StartSpawn(c) ==
    /\ UNCHANGED split
    /\ conns[c].st = "starting"
    /\ tasks' = Append(tasks, NewTask(conns[c].announced))
    /\ conns' = [conns EXCEPT ![c].st = "open", ![c].announced = 0]
    /\ ev' = Event("create_task", c, <<>>)
    /\ UNCHANGED <<clients, devices, device_latencies, is_streaming, current_audio_file,
                   sync_timestamp, now, hist, budget>>

\* stop_audio_streaming; a loop that is between two chunks notes the chunk
\* it had sent when the stop ran (stopAt)
stop_audio_streaming(c) ==
    /\ is_streaming' = FALSE
    /\ ev' = Event("stop_streaming", c,
                   Broadcast(clients, [type |-> "stop_streaming", to |-> {}]))
    /\ tasks' = [t \in DOMAIN tasks |->
                   IF tasks[t].pc = "sleep" /\ tasks[t].stopAt = -1
                   THEN [tasks[t] EXCEPT !.stopAt = tasks[t].i - 1]
                   ELSE tasks[t]]
    /\ UNCHANGED <<clients, devices, device_latencies, current_audio_file,
                   sync_timestamp, now, conns, hist, budget>>

StopStreaming(c) ==
    /\ UNCHANGED split
    /\ conns[c].st = "open"
    /\ stop_audio_streaming(c)

\* handle_sync_request
handle_sync_request(c) ==
    /\ UNCHANGED split
    /\ conns[c].st = "open"
    /\ ev' = Event("sync_request", c,
                   IF conns[c].id \in DOMAIN clients
                   THEN <<[type |-> "sync_response", to |-> {clients[conns[c].id]},
                           server_timestamp |-> now, client_id |-> conns[c].id]>>
                   ELSE <<>>)
    /\ UNCHANGED <<clients, devices, device_latencies, is_streaming, current_audio_file,
                   sync_timestamp, now, conns, tasks, hist, budget>>

WindowLen(device_id) ==
    IF device_id \in DOMAIN device_latencies THEN Len(device_latencies[device_id]) ELSE 0

HistAppend(device_id, latency) ==
    Put(hist, device_id,
        Append(IF device_id \in DOMAIN hist THEN hist[device_id] ELSE <<>>, latency))

\* handle_audio_ack with a chunk_id and a numeric timestamp:
\* latency = time.time() - received_timestamp
handle_audio_ack(c, received_timestamp) ==
    /\ UNCHANGED split
    /\ conns[c].st = "open"
    /\ WindowLen(conns[c].id) < MaxAcks
    /\ update_device_latency(conns[c].id, now - received_timestamp)
    /\ hist' = HistAppend(conns[c].id, now - received_timestamp)
    /\ ev' = Event("audio_chunk_ack", c, <<>>)
    /\ UNCHANGED <<clients, devices, is_streaming, current_audio_file, sync_timestamp,
                   now, conns, tasks, budget>>

\* ------------------------------------------------- stream_audio_chunks
\* the finally block of stream_audio_chunks; the coroutine's locals are gone
TaskEnd(t) ==
    /\ is_streaming' = FALSE
    /\ tasks' = [tasks EXCEPT ![t] = [NewTask(0) EXCEPT !.pc = "done"]]
    /\ ev' = Event("task_end", t, <<>>)

\* the loop leaving one pass early: the last chunk is never sent
IterateSkipLast(t, i, n) ==
    IF i >= n - 1 \/ ~is_streaming
    THEN TaskEnd(t)
    ELSE /\ tasks' = [tasks EXCEPT ![t].pc = "sleep", ![t].i = i + 1, ![t].n = n,
                                   ![t].wake = now + chunk_duration]
         /\ ev' = Event("audio_chunk", t,
                        Broadcast(clients,
                                  [type |-> "audio_chunk", to |-> {}, chunk_id |-> i,
                                   timestamp |-> sync_timestamp + i * chunk_duration,
                                   is_final |-> (i = n - 1)]))
         /\ UNCHANGED is_streaming

\* one pass of "for i, chunk in enumerate(chunks)" for index i of n, up to
\* the awaits that end it (the gather and the sleep)
Iterate(t, i, n) ==
    IF i >= n \/ ~is_streaming
    THEN TaskEnd(t)
    ELSE /\ tasks' = [tasks EXCEPT ![t].pc = "sleep", ![t].i = i + 1, ![t].n = n,
                                   ![t].wake = now + chunk_duration]
         /\ ev' = Event("audio_chunk", t,
                        Broadcast(clients,
                                  [type |-> "audio_chunk", to |-> {}, chunk_id |-> i,
                                   timestamp |-> sync_timestamp + i * chunk_duration,
                                   is_final |-> (i = n - 1)]))
         /\ UNCHANGED is_streaming

\* the task starts: load_audio and split_into_chunks, then the wait for
\* sync_timestamp; an unsupported source raises and ends the task
TaskBegin(t) ==
    /\ UNCHANGED split
    /\ t \in DOMAIN tasks
    /\ tasks[t].pc = "new"
    /\ IF current_audio_file = BadFile
       THEN TaskEnd(t)
       ELSE IF now < sync_timestamp
            THEN /\ tasks' = [tasks EXCEPT ![t].pc = "wait_sync", ![t].n = NumChunks]
                 /\ ev' = Event("task_begin", t, <<>>)
                 /\ UNCHANGED is_streaming
            ELSE Iterate(t, 0, NumChunks)
    /\ UNCHANGED <<clients, devices, device_latencies, current_audio_file,
                   sync_timestamp, now, conns, hist, budget>>

\* "while time.time() < self.sync_timestamp: await asyncio.sleep(0.001)" ends
TaskSynced(t) ==
    /\ UNCHANGED split
    /\ t \in DOMAIN tasks
    /\ tasks[t].pc = "wait_sync"
    /\ now >= sync_timestamp
    /\ Iterate(t, 0, tasks[t].n)
    /\ UNCHANGED <<clients, devices, device_latencies, current_audio_file,
                   sync_timestamp, now, conns, hist, budget>>

\* "await asyncio.sleep(sleep_time)" returns and the loop goes on
TaskNext(t) ==
    /\ UNCHANGED split
    /\ t \in DOMAIN tasks
    /\ tasks[t].pc = "sleep"
    /\ now >= tasks[t].wake
    /\ Iterate(t, tasks[t].i, tasks[t].n)
    /\ UNCHANGED <<clients, devices, device_latencies, current_audio_file,
                   sync_timestamp, now, conns, hist, budget>>

\* ----------------------------------------------------------- the clock
TickSteps == {chunk_duration, Lead}

\* the clock moves by the two second lead, or by one chunk_duration while a
\* delivery loop sleeps towards its next chunk
Tick(d) ==
    /\ UNCHANGED split
    /\ budget > 0
    /\ d = chunk_duration =>
         \E t \in DOMAIN tasks : tasks[t].pc = "sleep" /\ now < tasks[t].wake
    /\ budget' = budget - 1
    /\ now' = now + d
    /\ ev' = Event("tick", 0, <<>>)
    /\ UNCHANGED <<clients, devices, device_latencies, is_streaming, current_audio_file,
                   sync_timestamp, conns, tasks, hist>>

\* ---------------------------------------------------- the server's runs
\* no call of split_into_chunks is being looked at
NoSplit == [pc |-> "none"]

InitServer ==
    /\ clients = EmptyMap
    /\ devices = EmptyMap
    /\ device_latencies = EmptyMap
    /\ is_streaming = FALSE
    /\ current_audio_file = NoFile
    /\ sync_timestamp = 0
    /\ conns = [c \in ConnIds |-> [st |-> "free", id |-> 0, announced |-> 0]]
    /\ tasks = <<>>
    /\ ev = Event("init", 0, <<>>)
    /\ hist = EmptyMap
    /\ split = NoSplit

Init ==
    /\ InitServer
    /\ now = Lead
    /\ budget = MaxTicks

\* The session machine: connections, start and stop requests, the delivery
\* tasks and the clock.
Next ==
    \/ \E c \in 1..SessionConns : Connect(c)
    \/ \E c \in ConnIds : Announce(c)
    \/ \E c \in ConnIds : Disconnect(c)
    \/ \E c \in ConnIds, f \in StartFiles : StartStreaming(c, f)
    \/ \E c \in ConnIds : StartSpawn(c)
    \/ \E c \in ConnIds : StopStreaming(c)
    \/ \E t \in TaskIds : TaskBegin(t)
    \/ \E t \in TaskIds : TaskSynced(t)
    \/ \E t \in TaskIds : TaskNext(t)
    \/ \E d \in TickSteps : Tick(d)

Spec == Init /\ [][Next]_vars

\* The connections and the registry they feed: connects, disconnects and
\* every message kind, with the clock standing still.
NextRegistry ==
    \/ \E c \in ConnIds : Connect(c)
    \/ \E c \in ConnIds : Announce(c)
    \/ \E c \in ConnIds : Disconnect(c)
    \/ \E c \in ConnIds, name \in DeviceNames : handle_device_info(c, name)
    \/ \E c \in ConnIds : StartStreaming(c, NoFile)
    \/ \E c \in ConnIds : StartSpawn(c)
    \/ \E c \in ConnIds : StopStreaming(c)
    \/ \E c \in ConnIds : handle_sync_request(c)
    \/ \E c \in ConnIds, lat \in LatencySamples : handle_audio_ack(c, now - lat)

SpecRegistry == Init /\ [][NextRegistry]_vars

\* ------------------------------------------- DeviceManager, called directly
DmIds == 0..2
DmLatencies == {-441, 882, 2205, 6615}
\* the registry's clock moves by the 30 second activity window or by one
\* second more, so that ages of exactly 30 and 60 seconds and ages just
\* past them all occur
DmTickSteps == {ActiveWindow, ActiveWindow + SampleRate}

DmEvent(op) == Event(op, 0, <<>>)

DmStep(op) ==
    /\ UNCHANGED split
    /\ budget > 0
    /\ budget' = budget - 1
    /\ ev' = DmEvent(op)
    /\ UNCHANGED server_vars

DmUpdateDevice(d, name) ==
    /\ DmStep("update_device")
    /\ update_device(d, [name |-> name, volume |-> Unset, enabled |-> Unset])
    /\ hist' = IF d \in DOMAIN hist THEN hist ELSE Put(hist, d, <<>>)
    /\ UNCHANGED now

DmRemoveDevice(d) ==
    /\ DmStep("remove_device")
    /\ remove_device(d)
    /\ hist' = Del(hist, d)
    /\ UNCHANGED now

DmUpdateLatency(d, latency) ==
    /\ DmStep("update_device_latency")
    /\ update_device_latency(d, latency)
    /\ hist' = HistAppend(d, latency)
    /\ UNCHANGED <<devices, now>>

\* cleanup_inactive_devices(); the value it returns, len(inactive_devices),
\* is recorded in the event
DmCleanup ==
    /\ UNCHANGED split
    /\ budget > 0
    /\ budget' = budget - 1
    /\ UNCHANGED server_vars
    /\ cleanup_inactive_devices(CleanupTimeout)
    /\ ev' = Event("cleanup_inactive_devices", 0,
                   <<[type |-> "return", to |-> {},
                      value |-> Cardinality(InactiveIds(CleanupTimeout))]>>)
    /\ hist' = [d \in DOMAIN hist \ InactiveIds(CleanupTimeout) |-> hist[d]]
    /\ UNCHANGED now

DmTick(d) ==
    /\ DmStep("tick")
    /\ now' = now + d
    /\ UNCHANGED <<devices, device_latencies, hist>>

InitDm ==
    /\ InitServer
    /\ now = Lead
    /\ budget = MaxDmOps

NextDm ==
    \/ \E d \in DmIds, name \in DeviceNames : DmUpdateDevice(d, name)
    \/ \E d \in DmIds : DmRemoveDevice(d)
    \/ \E d \in DmIds, lat \in DmLatencies : DmUpdateLatency(d, lat)
    \/ DmCleanup
    \/ \E d \in DmTickSteps : DmTick(d)

SpecDm == InitDm /\ [][NextDm]_vars

\* Latency windows: samples arrive for two ids, numbered in arrival order,
\* and devices are announced and removed in between.
LatIds == 0..1

LatSample(d) ==
    /\ UNCHANGED split
    /\ budget > 0
    /\ budget' = budget - 1
    /\ ev' = DmEvent("update_device_latency")
    /\ update_device_latency(d, MaxHist - budget + 1)
    /\ hist' = HistAppend(d, MaxHist - budget + 1)
    /\ UNCHANGED <<devices, now>>
    /\ UNCHANGED server_vars

LatAnnounce(d) ==
    /\ UNCHANGED split
    /\ d \notin DOMAIN devices
    /\ ev' = DmEvent("update_device")
    /\ update_device(d, [name |-> "phone", volume |-> Unset, enabled |-> Unset])
    /\ hist' = IF d \in DOMAIN hist THEN hist ELSE Put(hist, d, <<>>)
    /\ UNCHANGED <<now, budget>>
    /\ UNCHANGED server_vars

LatRemove(d) ==
    /\ UNCHANGED split
    /\ d \in DOMAIN devices
    /\ ev' = DmEvent("remove_device")
    /\ remove_device(d)
    /\ hist' = Del(hist, d)
    /\ UNCHANGED <<now, budget>>
    /\ UNCHANGED server_vars

InitLat ==
    /\ InitServer
    /\ now = Lead
    /\ budget = MaxHist

NextLat ==
    \/ \E d \in LatIds : LatSample(d)
    \/ \E d \in LatIds : LatAnnounce(d)
    \/ \E d \in LatIds : LatRemove(d)

SpecLat == InitLat /\ [][NextLat]_vars

\* --------------------------------------- messages that are not requests
\* the texts a connection can send that handle_message cannot dispatch:
\* text that is not JSON, JSON that is not an object, an object of unknown
\* type, and an audio_chunk_ack with a chunk_id whose timestamp is missing
\* or is a string
MalformedKinds ==
    {"not_json", "not_object", "unknown_type", "ack_no_timestamp", "ack_text_timestamp"}

\* handle_message catches json.JSONDecodeError only: data.get on a list or
\* a number raises AttributeError, and "time.time() - received_timestamp"
\* raises TypeError for None or a string
Raises(kind) == kind \in {"not_object", "ack_no_timestamp", "ack_text_timestamp"}

\* handle_message on such a text.  An exception leaves "async for message in
\* websocket", is not ConnectionClosed, runs the finally block of
\* register_client and ends the connection's handler.
handle_malformed(c, kind) ==
    /\ UNCHANGED split
    /\ conns[c].st = "open"
    /\ IF Raises(kind)
       THEN /\ clients' = IF conns[c].id \in DOMAIN clients
                          THEN Del(clients, conns[c].id) ELSE clients
            /\ conns' = [conns EXCEPT ![c].st = "closed"]
            /\ ev' = EventOf("message", c, kind,
                             Broadcast(clients', DeviceListMsg(get_device_list)))
       ELSE /\ ev' = EventOf("message", c, kind, <<>>)
            /\ UNCHANGED <<clients, conns>>
    /\ UNCHANGED <<devices, device_latencies, is_streaming, current_audio_file,
                   sync_timestamp, now, tasks, hist, budget>>

\* One connection's conversation: every message kind, well formed or not,
\* with the clock moving between messages.
NextMessages ==
    \/ \E c \in 1..SessionConns : Connect(c)
    \/ \E c \in ConnIds : Announce(c)
    \/ \E c \in ConnIds : Disconnect(c)
    \/ \E c \in ConnIds, name \in DeviceNames : handle_device_info(c, name)
    \/ \E c \in ConnIds : StartStreaming(c, NoFile)
    \/ \E c \in ConnIds : StartSpawn(c)
    \/ \E c \in ConnIds : StopStreaming(c)
    \/ \E c \in ConnIds : handle_sync_request(c)
    \/ \E c \in ConnIds, lat \in LatencySamples : handle_audio_ack(c, now - lat)
    \/ \E c \in ConnIds, kind \in MalformedKinds : handle_malformed(c, kind)
    \/ Tick(Lead)

SpecMessages == Init /\ [][NextMessages]_vars

\* ------------------------------------- AudioStreamer.split_into_chunks
\* A buffer is known by its numpy shape, <<T>> or <<T, C>>; a chunk is the
\* slice audio_data[lo:hi] and is written as its window [lo, hi).
MaxSamples == 7
MaxChannels == 2

\* generate_test_audio(): int(44100 * 10.0) rows of two columns
TestToneShape == <<SampleRate * 10, 2>>

\* the element width split_into_chunks divides by, with 2 bytes (16 bit)
\* in place of the 4 of a float32
samples_per_chunk_int16(shape, size) ==
    IF Len(shape) = 2 THEN size \div (shape[2] * 2) ELSE size \div 2

\* "chunk_size // (audio_data.shape[1] * 4)" for a 2-D buffer, else
\* "chunk_size // 4"
samples_per_chunk(shape, size) ==
    IF Len(shape) = 2 THEN size \div (shape[2] * 4) ELSE size \div 4

\* the slice audio_data[i:i + step] of a buffer of len rows: it ends at the
\* end of the buffer
Slice(i, step, len) == [lo |-> i, hi |-> IF i + step <= len THEN i + step ELSE len]

\* the buffers and byte budgets the function is called with
SplitShapes ==
    {<<len>> : len \in 0..MaxSamples}
      \cup {<<len, c>> : len \in 0..MaxSamples, c \in 1..MaxChannels}
SplitSizes == {3, 4, 7, 8, 12, 16, 17, 24, chunk_size}

\* every short buffer with every budget, and the generated tone with the
\* 4096 bytes stream_audio_chunks passes
SplitCalls ==
    (SplitShapes \X SplitSizes) \cup {<<TestToneShape, chunk_size>>}

\* split_into_chunks up to the for statement; range() raises ValueError
\* for a step of zero
SplitCall ==
    /\ split.pc = "call"
    /\ split' = IF samples_per_chunk(split.shape, split.size) = 0
                THEN [split EXCEPT !.pc = "raised"]
                ELSE [split EXCEPT !.pc = "loop"]
    /\ ev' = Event("split_into_chunks", 0, <<>>)
    /\ UNCHANGED <<clients, devices, device_latencies, is_streaming, current_audio_file,
                   sync_timestamp, now, conns, tasks, hist, budget>>

\* one pass of "for i in range(0, len(audio_data), samples_per_chunk):
\* chunks.append(audio_data[i:i + samples_per_chunk])", or the return
SplitStep ==
    /\ split.pc = "loop"
    /\ LET step == samples_per_chunk(split.shape, split.size)
       IN  split' = IF split.i >= split.shape[1]
                    THEN [split EXCEPT !.pc = "returned"]
                    ELSE [split EXCEPT !.i = split.i + step,
                                       !.chunks = Append(split.chunks,
                                                         Slice(split.i, step, split.shape[1]))]
    /\ ev' = Event("split_into_chunks", 0, <<>>)
    /\ UNCHANGED <<clients, devices, device_latencies, is_streaming, current_audio_file,
                   sync_timestamp, now, conns, tasks, hist, budget>>

InitChunks ==
    /\ clients = EmptyMap
    /\ devices = EmptyMap
    /\ device_latencies = EmptyMap
    /\ is_streaming = FALSE
    /\ current_audio_file = NoFile
    /\ sync_timestamp = 0
    /\ conns = [c \in ConnIds |-> [st |-> "free", id |-> 0, announced |-> 0]]
    /\ tasks = <<>>
    /\ ev = Event("init", 0, <<>>)
    /\ hist = EmptyMap
    /\ now = Lead
    /\ budget = 0
    /\ \E call \in SplitCalls :
          split = [pc |-> "call", shape |-> call[1], size |-> call[2], i |-> 0,
                   chunks |-> <<>>]

NextChunks == SplitCall \/ SplitStep

SpecChunks == InitChunks /\ [][NextChunks]_vars

\* ---------------------------------------------- broadcasts that partly fail
BroadcastConns == 2

\* A controller and its listeners: connection 1 starts and stops sessions,
\* the later connections listen, and their transports may close at any
\* moment of a session.
NextBroadcast ==
    \/ \E c \in 1..BroadcastConns : Connect(c)
    \/ \E c \in ConnIds : Announce(c)
    \/ \E c \in ConnIds \ {1} : Die(c)
    \/ \E c \in ConnIds \ {1} : Disconnect(c)
    \/ StartStreaming(1, NoFile)
    \/ \E c \in ConnIds : StartSpawn(c)
    \/ StopStreaming(1)
    \/ \E t \in TaskIds : TaskBegin(t)
    \/ \E t \in TaskIds : TaskSynced(t)
    \/ \E t \in TaskIds : TaskNext(t)
    \/ \E d \in TickSteps : Tick(d)

SpecBroadcast == Init /\ [][NextBroadcast]_vars

\* ------------------------------------------- volume and the enabled flag
\* the volumes asked for, in hundredths: below 0, the two ends, inside, above 1
VolumeArgs == {-50, 0, 40, 100, 150}

\* update_device with the dict handle_device_info builds (id, name,
\* platform, capabilities, latency: no 'volume', no 'enabled')
VolUpdateDevice(d, name) ==
    /\ update_device(d, [name |-> name, volume |-> Unset, enabled |-> Unset])
    /\ hist' = IF d \in DOMAIN hist THEN hist ELSE Put(hist, d, <<>>)
    /\ ev' = Event("update_device", d, <<>>)
    /\ UNCHANGED <<now, budget, split>>
    /\ UNCHANGED server_vars

\* set_device_volume(d, volume); the event keeps the volume asked for
VolSetVolume(d, volume) ==
    /\ set_device_volume(d, volume)
    /\ ev' = Event("set_device_volume", d, <<[type |-> "call", to |-> {}, value |-> volume]>>)
    /\ UNCHANGED <<device_latencies, hist, now, budget, split>>
    /\ UNCHANGED server_vars

VolSetEnabled(d, enabled) ==
    /\ set_device_enabled(d, enabled)
    /\ ev' = Event("set_device_enabled", d, <<>>)
    /\ UNCHANGED <<device_latencies, hist, now, budget, split>>
    /\ UNCHANGED server_vars

NextVol ==
    \/ \E d \in DmIds, name \in DeviceNames : VolUpdateDevice(d, name)
    \/ \E d \in DmIds, volume \in VolumeArgs : VolSetVolume(d, volume)
    \/ \E d \in DmIds, enabled \in BOOLEAN : VolSetEnabled(d, enabled)

SpecVol == InitDm /\ [][NextVol]_vars

\* ------------------------------------------- sessions that nobody stops
\* some delivery task waits for the clock: for sync_timestamp or for the
\* end of its sleep
ClockAwaited ==
    \E t \in DOMAIN tasks :
        \/ tasks[t].pc = "wait_sync" /\ now < sync_timestamp
        \/ tasks[t].pc = "sleep" /\ now < tasks[t].wake

\* time passes while a task waits for it
TickAwaited(d) ==
    /\ ClockAwaited
    /\ Tick(d)

\* every session can be given the lead and one chunk_duration per chunk
InitNatural ==
    /\ InitServer
    /\ now = Lead
    /\ budget = MaxTasks * (NumChunks + 1)

\* Sessions are started and never stopped.  The event loop runs every task
\* that is ready, and time passes: weak fairness on the steps of the
\* delivery tasks, on create_task and on the clock.
NextNatural ==
    \/ \E c \in 1..SessionConns : Connect(c)
    \/ \E c \in ConnIds : Announce(c)
    \/ \E c \in ConnIds : Disconnect(c)
    \/ \E c \in ConnIds, f \in StartFiles : StartStreaming(c, f)
    \/ \E c \in ConnIds : StartSpawn(c)
    \/ \E t \in TaskIds : TaskBegin(t)
    \/ \E t \in TaskIds : TaskSynced(t)
    \/ \E t \in TaskIds : TaskNext(t)
    \/ \E d \in TickSteps : TickAwaited(d)

SpecNatural ==
    /\ InitNatural
    /\ [][NextNatural]_vars
    /\ WF_vars(\E c \in ConnIds : StartSpawn(c))
    /\ WF_vars(\E t \in TaskIds : TaskBegin(t))
    /\ WF_vars(\E t \in TaskIds : TaskSynced(t))
    /\ WF_vars(\E t \in TaskIds : TaskNext(t))
    /\ WF_vars(\E d \in TickSteps : TickAwaited(d))

\* --------------------------------------- sessions stopped and started again
\* One connection starts, stops and starts again sessions on the default
\* source while earlier delivery tasks are still suspended; the clock moves
\* while a task waits for it, far enough for every task to send all its
\* chunks.
NextRestart ==
    \/ \E c \in 1..SessionConns : Connect(c)
    \/ \E c \in ConnIds : Announce(c)
    \/ \E c \in ConnIds : Disconnect(c)
    \/ \E c \in ConnIds : StartStreaming(c, NoFile)
    \/ \E c \in ConnIds : StartSpawn(c)
    \/ \E c \in ConnIds : StopStreaming(c)
    \/ \E t \in TaskIds : TaskBegin(t)
    \/ \E t \in TaskIds : TaskSynced(t)
    \/ \E t \in TaskIds : TaskNext(t)
    \/ \E d \in TickSteps : TickAwaited(d)

SpecRestart == InitNatural /\ [][NextRestart]_vars

\* ================================================================ claims
LiveLoops == {t \in DOMAIN tasks : tasks[t].pc \in {"wait_sync", "sleep"}}

\* C1: in every reachable state at most one delivery loop (a
\* stream_audio_chunks task that has started and not ended) is live.
C1_AtMostOneDeliveryLoop == Cardinality(LiveLoops) <= 1

\* C2: a loop that was between chunks when stop_audio_streaming ran never
\* sends a chunk with an index above the one it had sent then.
C2_NoChunkAfterStop ==
    \A t \in DOMAIN tasks : tasks[t].stopAt # -1 => tasks[t].i - 1 <= tasks[t].stopAt

\* C3: a start_streaming request handled while is_streaming is set changes
\* neither sync_timestamp, current_audio_file nor is_streaming, sends no
\* message and creates no task (none now, none pending after an await).
C3_StartWhileActiveIsNoOp ==
    [][(ev'.op = "start_streaming" /\ is_streaming)
         => /\ UNCHANGED <<is_streaming, sync_timestamp, current_audio_file, tasks, conns>>
            /\ ev'.msgs = <<>>]_vars

\* a start for another source was handled as a no-op while a loop of the
\* running session was delivering to a connected client
C3_Witness ==
    /\ ev.op = "start_streaming"
    /\ ev.msgs = <<>>
    /\ DOMAIN clients # {}
    /\ is_streaming
    /\ ev.arg = BadFile
    /\ current_audio_file = DefaultFile
    /\ \E t \in DOMAIN tasks : tasks[t].pc = "sleep"

Idle ==
    /\ ~is_streaming
    /\ \A t \in DOMAIN tasks : tasks[t].pc = "done"
    /\ PendingStarts = 0

\* C4: a stop_streaming request handled while the session is idle leaves it
\* idle and sends no stop_streaming message.
C4_StopWhenIdleIsNoOp ==
    [][(ev'.op = "stop_streaming" /\ Idle) => (Idle' /\ ev'.msgs = <<>>)]_vars

\* C5: the client_id given to a connecting device is the id of no device in
\* the clients map and of no device in the registry.
C5_FreshClientId ==
    [][ev'.op = "connect"
         => /\ ev'.msgs[1].client_id \notin DOMAIN clients
            /\ ev'.msgs[1].client_id \notin DOMAIN devices]_vars

\* C6: a start that succeeds sets sync_timestamp to now +
\* get_synchronization_delay() + 2 seconds, with the delay read at the start.
C6_StartAddsSyncDelay ==
    [][(ev'.op = "start_streaming" /\ ~is_streaming)
         => (sync_timestamp' - now - Lead) * AvgScale = get_synchronization_delay]_vars

SetMax(S) == CHOOSE m \in S : \A x \in S : x <= m

\* the largest average among the devices of ids, and 0.0 for none; an
\* average below zero (a receipt timestamp ahead of the server's clock)
\* counts as 0.0, as the running maximum of get_max_latency starts there
LargestAverage(ids) == SetMax({0} \cup {get_average_latency(d) : d \in ids})

ActiveMax == LargestAverage(ActiveIds)

RegisteredMax == LargestAverage(DOMAIN devices)

\* C7 as stated: get_synchronization_delay() is the largest average latency
\* of the active devices plus 0.1 s, and 0.1 s when none is active; a
\* registered device that is no longer active does not count.
C7_DelayOverActive == get_synchronization_delay = ActiveMax + SyncBuffer * AvgScale

\* C7 as amended: get_synchronization_delay() is 0.1 s plus the largest
\* average latency of the devices in the registry, active or not (an
\* average below zero counting as zero), and 0.1 s for an empty registry.
C7_DelayOverRegistered == get_synchronization_delay = RegisteredMax + SyncBuffer * AvgScale

\* a device that is no longer active holds the largest average and sets the
\* delay, while another device is active
C7_Witness ==
    /\ ActiveIds # {}
    /\ \E d \in DOMAIN devices \ ActiveIds :
          /\ get_average_latency(d) > ActiveMax
          /\ get_synchronization_delay = get_average_latency(d) + SyncBuffer * AvgScale

\* C8: every audio_chunk message a task sends carries the sync_timestamp
\* announced by the start that created the task, plus chunk_id * chunk_duration.
C8_ChunkTimestamp ==
    (ev.op = "audio_chunk" /\ ev.msgs # <<>>)
      => ev.msgs[1].timestamp
           = tasks[ev.conn].announced + ev.msgs[1].chunk_id * chunk_duration

LastN(s, k) == SubSeq(s, Len(s) - k + 1, Len(s))

\* C9: every latency window holds at most 10 samples and equals the last
\* min(n, 10) of the n samples appended to it, in arrival order.
C9_WindowIsMostRecent ==
    \A d \in DOMAIN device_latencies :
       /\ Len(device_latencies[d]) <= max_latency_samples
       /\ device_latencies[d]
            = LastN(hist[d], IF Len(hist[d]) <= max_latency_samples
                             THEN Len(hist[d]) ELSE max_latency_samples)

\* an 11th sample has been appended to a window and the oldest is gone
C9_Witness ==
    \E d \in DOMAIN device_latencies :
       /\ Len(hist[d]) > max_latency_samples
       /\ Len(device_latencies[d]) = max_latency_samples
       /\ device_latencies[d][1] = hist[d][Len(hist[d]) - max_latency_samples + 1]
       /\ device_latencies[d][1] # hist[d][1]

\* C10: an audio_chunk_ack from a client that has no device in the registry
\* leaves devices and device_latencies as they were.
C10_AckOfUnknownDropped ==
    [][(ev'.op = "audio_chunk_ack" /\ conns[ev'.conn].id \notin DOMAIN devices)
         => UNCHANGED <<devices, device_latencies>>]_vars

\* C11: a malformed inbound message (text that is not JSON, JSON that is
\* not an object, an unknown type, an audio_chunk_ack whose timestamp is
\* missing or not a number) never ends the connection or the session: after
\* it the connection is still open, the clients map is as it was and
\* is_streaming is unchanged.
C11_MalformedKeepsConnection ==
    [][ev'.op = "message" =>
         /\ conns'[ev'.conn].st = "open"
         /\ clients' = clients
         /\ is_streaming' = is_streaming]_vars

\* C12: when a connection closes, its device leaves the registry and the
\* active set in the same step: the device list broadcast that follows no
\* longer holds it and it no longer counts in get_synchronization_delay.
\* (Stated for a client id no other live connection holds.)
C12_DisconnectRemovesDevice ==
    [][ev'.op = "disconnect" =>
         LET id == conns[ev'.conn].id
         IN  (\A b \in ConnIds \ {ev'.conn} :
                  conns[b].st \in {"free", "closed"} \/ conns[b].id # id)
             => /\ id \notin DOMAIN devices'
                /\ \A device \in get_device_list' : device.id # id
                /\ get_synchronization_delay'
                     = MaxLatencyOver(DOMAIN devices \ {id}, 0) + SyncBuffer * AvgScale]_vars

\* C13: a device last seen more than 30 s ago is not in get_device_list,
\* and while it is not more than 60 s old cleanup_inactive_devices() leaves
\* it in the registry: the call removes exactly the devices last seen more
\* than 60 s ago, together with their latency windows, returns how many it
\* removed and leaves every other device and window untouched.
C13_LivenessWindows ==
    /\ [](\A d \in DOMAIN devices :
             now - devices[d].last_seen > ActiveWindow
                => \A device \in get_device_list : device.id # d)
    /\ [][ev'.op = "cleanup_inactive_devices" =>
            LET old == {d \in DOMAIN devices :
                           now - devices[d].last_seen > CleanupSeconds * SampleRate}
            IN  /\ DOMAIN devices' = DOMAIN devices \ old
                /\ \A d \in DOMAIN devices' : devices'[d] = devices[d]
                /\ DOMAIN device_latencies' = DOMAIN device_latencies \ old
                /\ \A d \in DOMAIN device_latencies' :
                       device_latencies'[d] = device_latencies[d]
                /\ ev'.msgs[1].value = Cardinality(old)]_vars

\* a cleanup has just removed a device and left one that is between 30 and
\* 60 seconds old, which the device list does not hold
C13_Witness ==
    /\ ev.op = "cleanup_inactive_devices"
    /\ ev.msgs[1].value >= 1
    /\ \E d \in DOMAIN devices :
          /\ now - devices[d].last_seen > ActiveWindow
          /\ now - devices[d].last_seen <= CleanupSeconds * SampleRate
          /\ \A device \in get_device_list : device.id # d

\* the rows of the buffer, its channels (one for a 1-D buffer) and the
\* window the claims name, floor(B / (C * 4))
SplitRows == split.shape[1]
SplitChannels == IF Len(split.shape) = 2 THEN split.shape[2] ELSE 1
SplitWindow == split.size \div (SplitChannels * 4)

\* C14: split_into_chunks cuts a buffer of T samples, for byte budget B and
\* C channels of 4-byte elements, into consecutive windows that do not
\* overlap and together cover the buffer in order; each but the last holds
\* floor(B / (C * 4)) samples, the last between 1 and that many, and there
\* are ceil(T / floor(B / (C * 4))) of them (441000 samples, 4096 bytes and
\* 2 channels: windows of 512, 862 chunks, the last of 168).
C14_ChunksPartitionBuffer ==
    (split.pc \in {"returned", "raised"} /\ SplitWindow >= 1) =>
        LET chunks == split.chunks
            count == Len(chunks)
        IN  /\ split.pc = "returned"
            /\ count = (SplitRows + SplitWindow - 1) \div SplitWindow
            /\ count > 0 => chunks[1].lo = 0 /\ chunks[count].hi = SplitRows
            /\ \A k \in 1..(count - 1) :
                  /\ chunks[k + 1].lo = chunks[k].hi
                  /\ chunks[k].hi - chunks[k].lo = SplitWindow
            /\ count > 0 =>
                  /\ chunks[count].hi - chunks[count].lo >= 1
                  /\ chunks[count].hi - chunks[count].lo <= SplitWindow
            /\ (split.shape = <<441000, 2>> /\ split.size = 4096) =>
                  /\ SplitWindow = 512
                  /\ count = 862
                  /\ chunks[count].hi - chunks[count].lo = 168

\* the generated ten second tone has been split for 4096 bytes, and so has
\* a short buffer whose length is no multiple of the window
C14_Witness ==
    /\ split.pc = "returned"
    /\ \/ split.shape = TestToneShape /\ split.size = chunk_size
       \/ /\ Len(split.chunks) >= 2
          /\ SplitRows % SplitWindow # 0

BroadcastTypes == {"device_list", "prepare_streaming", "audio_chunk", "stop_streaming"}

\* C15: when the send to one connection fails during a broadcast (device
\* list, prepare, chunk or stop), the message still goes to every other
\* connection of the clients map, nothing is raised into the handler that
\* broadcast, and a delivery loop goes on to its next chunk.
C15_SendFailureIsContained ==
    [][\A k \in DOMAIN ev'.msgs :
          (ev'.msgs[k].type \in BroadcastTypes /\ ev'.msgs[k].to \cap Failing # {})
             => /\ ev'.msgs[k].to = Range(clients')
                /\ ev'.op = "audio_chunk" =>
                      /\ tasks'[ev'.conn].pc = "sleep"
                      /\ is_streaming' = is_streaming
                /\ ev'.op \in {"announce", "device_info", "stop_streaming"} =>
                      conns'[ev'.conn].st = "open"
                /\ ev'.op = "start_streaming" => conns'[ev'.conn].st = "starting"]_vars

\* a chunk has just been broadcast to a connection whose transport is
\* closed and to one that is open, and the loop sleeps towards the next
C15_Witness ==
    /\ ev.op = "audio_chunk"
    /\ ev.msgs # <<>>
    /\ ev.msgs[1].to \cap Failing # {}
    /\ \E c \in ev.msgs[1].to : conns[c].st = "open"
    /\ tasks[ev.conn].pc = "sleep"

C17_NaturalCompletion ==
    /\ [][/\ ev'.op = "audio_chunk" =>
               /\ tasks'[ev'.conn].i = tasks[ev'.conn].i + 1
               /\ tasks[ev'.conn].i < NumChunks
               /\ \A k \in DOMAIN ev'.msgs :
                     /\ ev'.msgs[k].chunk_id = tasks[ev'.conn].i
                     /\ ev'.msgs[k].is_final = (ev'.msgs[k].chunk_id = NumChunks - 1)
          /\ (ev'.op = "task_end" /\ current_audio_file # BadFile) =>
               /\ tasks[ev'.conn].i = NumChunks
               /\ ~is_streaming'
          /\ \A k \in DOMAIN ev'.msgs : ev'.msgs[k].type # "stop_streaming"]_vars
    /\ is_streaming ~> ~is_streaming

\* a delivery loop has just ended by itself on the default source, with a
\* client connected, and the session is idle
C17_Witness ==
    /\ ev.op = "task_end"
    /\ current_audio_file = DefaultFile
    /\ clients # EmptyMap
    /\ ~is_streaming

\* C18: when the source fails to decode in the delivery task, after
\* prepare_streaming went out to the connected clients, the session goes
\* back to idle and a stop_streaming message is broadcast to them.
C18_DecodeFailureStops ==
    [][(/\ ev'.op = "task_end"
        /\ tasks[ev'.conn].pc = "new"
        /\ current_audio_file = BadFile
        /\ clients # EmptyMap)
          => /\ ~is_streaming'
             /\ \E k \in DOMAIN ev'.msgs :
                   /\ ev'.msgs[k].type = "stop_streaming"
                   /\ ev'.msgs[k].to = Range(clients)]_vars

\* C19: the pacing interval chunk_duration is computed with the element
\* width the buffer is partitioned with, so chunk_duration * sample_rate is
\* the number of samples of a full window: for the 4096 byte budget and a
\* stereo buffer at 44100 Hz, the 512 samples of the first chunk.
\* (chunk_duration is held in sample periods, that is, already times 44100.)
C19_PacingMatchesWindow ==
    (/\ split.pc = "returned"
     /\ split.shape = TestToneShape
     /\ split.size = chunk_size)
        => /\ split.chunks[1].hi - split.chunks[1].lo = 512
           /\ chunk_duration = split.chunks[1].hi - split.chunks[1].lo

\* C20: every message a registered device sends (device_info,
\* audio_chunk_ack, sync_request, start_streaming, stop_streaming) sets the
\* device's last_seen to the time of the message.
C20_EveryMessageRefreshes ==
    [][(/\ ev'.op \in {"device_info", "audio_chunk_ack", "sync_request",
                       "start_streaming", "stop_streaming"}
        /\ conns[ev'.conn].id \in DOMAIN devices)
          => /\ conns[ev'.conn].id \in DOMAIN devices'
             /\ devices'[conns[ev'.conn].id].last_seen = now']_vars

\* C21: update_device for an id that is already registered leaves the
\* device's latency window, its volume and its enabled flag as they were.
C21_ReannounceKeepsPlaybackState ==
    [][\A d \in DmIds :
          (ev'.op = "update_device" /\ ev'.conn = d /\ d \in DOMAIN devices)
             => /\ device_latencies' = device_latencies
                /\ get_device_volume(d)' = get_device_volume(d)
                /\ is_device_enabled(d)' = is_device_enabled(d)]_vars

\* C22: the end of a delivery task of an earlier session does not clear the
\* running flag of a newer one: when a task ends while is_streaming is set
\* and a later start has created (or is about to create) another task, the
\* flag stays set.
C22_StaleEndKeepsFlag ==
    [][(/\ ev'.op = "task_end"
        /\ is_streaming
        /\ (ev'.conn < Len(tasks) \/ PendingStarts > 0))
          => is_streaming']_vars

\* C23: every connection that is open has its own entry in the clients
\* map, under its client id, whatever connects and disconnects came before.
C23_OpenConnectionHasEntry ==
    \A c \in ConnIds :
        conns[c].st \in {"welcome", "open", "starting", "dead"}
            => /\ conns[c].id \in DOMAIN clients
               /\ clients[conns[c].id] = c

====
